---------------------------- MODULE Spec2Model ----------------------------
(***************************************************************************)
(* The Limon restaurant backend (src/server.py): the admin CRUD routes     *)
(* over categories, menu items and settings, the data_version counter kept *)
(* in the settings document, the public read routes and the intake routes. *)
(*                                                                         *)
(* A MongoDB document is a function from field names to values; a field    *)
(* the document does not have is a name outside its DOMAIN.  A collection  *)
(* keyed by _id is a function from the ids present to documents; the       *)
(* settings collection, which the code addresses with the empty filter, is *)
(* a sequence of documents in insertion order.  Every request is served by *)
(* a process of Procs; a handler that makes several storage calls is one   *)
(* action per storage call, so that requests interleave between calls.     *)
(* Timestamps (created_at, updated_at) and display fields that no handler  *)
(* reads are not stored.                                                   *)
(***************************************************************************)
EXTENDS Integers, Sequences, FiniteSets, TLC

\* ------------------------------------------------------------ bounds
NumProcs == 2
MaxRequests == 3
MaxCats == 2
MaxItems == 3
MaxOrders == 1
MaxMessages == 1
MaxOrder == 2
MaxBatch == 1
NumDefaultCategories == 1
MaxNow == 9

\* ------------------------------------------------- program constants
TokenTTL == 7

Procs == 1..NumProcs
\* An ObjectId string that names no document.
BogusId == 0
\* The _id of the admin init_default_data inserts.
AdminId == 1
\* get_menu_items' category_id: Optional[str] = None
NoCategory == -1

VARIABLES
    categories,        \* db.categories: _id -> document
    nextCat,           \* number of category _ids handed out so far
    menu_items,        \* db.menu_items: _id -> document
    nextItem,          \* number of menu item _ids handed out so far
    settings,          \* db.settings: sequence of documents
    admins,            \* db.admins: _id -> document
    orders,            \* db.orders: _id -> document
    nextOrder,         \* number of order _ids handed out so far
    contact_messages,  \* db.contact_messages: _id -> document
    nextMessage,       \* number of contact message _ids handed out so far
    notifications,     \* db.notifications: sequence of documents
    now,               \* datetime.utcnow(), in days
    issued,            \* the credentials create_token has signed
    pc,                \* per process: the storage call it is about to make
    local,             \* per process: the handler's local variables
    resp,              \* the last response sent
    nreq,              \* requests accepted so far
    presented,         \* history: the credential the last accepted request came with
    fresh,             \* history: init_default_data seeded the settings document
    v0,                \* history: get_data_version's answer at start
    base,              \* history: the stored data_version field at start
    muts,              \* history: catalog/settings mutations answered 200
    bumpOps,           \* history: $inc calls on data_version made
    otherWriter,       \* history: a $set has written data_version
    epoch,             \* history: writes to categories, menu_items, settings
    overlap            \* history: per process, its delete_category has been interleaved

db == <<categories, nextCat, menu_items, nextItem, settings, admins, orders,
        nextOrder, contact_messages, nextMessage, notifications>>
hist == <<presented, fresh, v0, base, muts, bumpOps, otherWriter, epoch, overlap>>
vars == <<db, now, issued, pc, local, resp, nreq, hist>>

\* The stored entities, without the _id counters.
stored == <<categories, menu_items, settings, admins, orders, contact_messages,
            notifications>>
\* The cached public dataset.
catalog == <<categories, menu_items, settings>>

\* --------------------------------------------------------- documents
NoFields == [k \in {} |-> TRUE]

Has(doc, f) == f \in DOMAIN doc

\* dict.get(f, default)
Get(doc, f, default) == IF Has(doc, f) THEN doc[f] ELSE default

\* {"$set": upd} on one document
SetFields(doc, upd) ==
    [k \in DOMAIN doc \cup DOMAIN upd |-> IF k \in DOMAIN upd THEN upd[k] ELSE doc[k]]

\* {"$inc": {f: n}} on one document: a missing field counts as 0
IncField(doc, f, n) ==
    [k \in DOMAIN doc \cup {f} |-> IF k = f THEN Get(doc, f, 0) + n ELSE doc[k]]

\* collection.delete_one / delete_many on a collection keyed by _id
Without(coll, ids) == [i \in DOMAIN coll \ ids |-> coll[i]]

\* collection.insert_one with a fresh _id
Insert(coll, id, doc) == [i \in DOMAIN coll \cup {id} |-> IF i = id THEN doc ELSE coll[i]]


\* "if not update_data" with the test left out.
NoData_never(update_data) == FALSE

\* if not update_data: no field of the body is non-None
NoData(update_data) == update_data = NoFields

\* ---------------------------------------------------------- settings
\* db.settings.find_one(): the first document, or None (here NoFields with found = FALSE)
FindSettings(s) == IF Len(s) = 0 THEN [found |-> FALSE, doc |-> NoFields]
                   ELSE [found |-> TRUE, doc |-> s[1]]

\* db.settings.update_one({}, {"$set": update_data}, upsert=True)
SetSettings(s, upd) == IF Len(s) = 0 THEN <<SetFields(NoFields, upd)>>
                       ELSE [s EXCEPT ![1] = SetFields(s[1], upd)]

\* Bump written with "$set" of a constant in place of "$inc".
Bump_set(s) == SetSettings(s, [data_version |-> 1])

\* db.settings.update_one({}, {"$inc": {"data_version": 1}}, upsert=True)
Bump(s) == IF Len(s) = 0 THEN <<IncField(NoFields, "data_version", 1)>>
           ELSE [s EXCEPT ![1] = IncField(s[1], "data_version", 1)]

\* ReadVersion with 0 in place of the default 1.
ReadVersion_zero(s) == IF Len(s) = 0 THEN 0 ELSE Get(s[1], "data_version", 0)

\* get_data_version: settings.get("data_version", 1) if settings else 1
ReadVersion(s) == LET f == FindSettings(s)
                  IN  IF f.found THEN Get(f.doc, "data_version", 1) ELSE 1

\* SnapshotVersion with the default of a missing field taken as 0.
SnapshotVersion_zero(f) == IF f.found THEN Get(f.doc, "data_version", 0) ELSE 0

\* SnapshotVersion taken from the settings as they are when the response is
\* assembled, after the reads of categories and menu items.
SnapshotVersion_latest(f) == ReadVersion(settings)

\* get_public_data: "dataVersion" of the settings document it read first
SnapshotVersion(f) == IF f.found THEN Get(f.doc, "data_version", 1) ELSE 1

\* The stored field itself, 0 when no document holds it ($inc reads it so).
StoredVersion(s) == IF Len(s) = 0 THEN 0 ELSE Get(s[1], "data_version", 0)
HasVersionField(s) == Len(s) > 0 /\ Has(s[1], "data_version")

\* -------------------------------------------------------------- auth
\* hash_password: sha256 is one-way and, on the passwords used here, injective
hash_password(password) == <<"sha256", password>>

\* create_token: the signed payload; exp = utcnow() + 7 days
create_token(user_id, t) == [user_id |-> user_id, exp |-> t + TokenTTL, signed |-> TRUE]

\* verify_token without the expiry check (decode with verify_exp off).
verify_token_unexpiring(cred, t) == IF ~cred.signed THEN "Invalid token" ELSE "ok"

\* verify_token that takes a credential as expired on the day of its exp.
verify_token_strict(cred, t) ==
    IF ~cred.signed THEN "Invalid token"
    ELSE IF cred.exp <= t THEN "Token expired"
    ELSE "ok"

\* verify_token that also refuses a credential once the admin's password is
\* no longer the seeded one.
verify_token_revoking(cred, t) ==
    IF ~cred.signed THEN "Invalid token"
    ELSE IF cred.exp < t THEN "Token expired"
    ELSE IF \E a \in DOMAIN admins : admins[a].password # <<"sha256", "admin123">>
         THEN "Invalid token"
    ELSE "ok"

\* verify_token: jwt.decode checks the signature, then the expiry
verify_token(cred, t) ==
    IF ~cred.signed THEN "Invalid token"
    ELSE IF cred.exp < t THEN "Token expired"
    ELSE "ok"

\* What a caller can put in the Authorization header: a credential the server
\* signed, or one signed with another key.
Forged == [user_id |-> AdminId, exp |-> now + TokenTTL, signed |-> FALSE]
Creds == issued \cup {Forged}

Passwords == {"admin123", "limon456"}

\* ------------------------------------------------------------ listing
\* get_menu_items' query: category_id when given (NoCategory: not given),
\* and {"is_published": {"$ne": False}} when published_only
MatchItems(items, category_id, published_only) ==
    {i \in DOMAIN items :
        /\ (category_id # NoCategory => items[i].category_id = category_id)
        /\ (published_only =>
               (~Has(items[i], "is_published") \/ items[i].is_published # FALSE))}

\* delete_category with delete_one in place of delete_many: one match at most.
ItemsOf_one(items, category_id) ==
    LET all == {i \in DOMAIN items : items[i].category_id = category_id}
    IN  IF all = {} THEN {} ELSE {CHOOSE i \in all : TRUE}

\* delete_category's filter {"category_id": category_id}
ItemsOf(items, category_id) == {i \in DOMAIN items : items[i].category_id = category_id}

\* Document a does not sort after document b under sort("order", 1): a
\* document without the field sorts before every one that has it
NotAfter(a, b) == ~Has(a, "order") \/ (Has(b, "order") /\ a.order <= b.order)

\* SortByOrder with the direction reversed: sort("order", -1).
SortByOrder_desc(coll, ids) ==
    {s \in [1..Cardinality(ids) -> ids] :
        \A i, j \in 1..Cardinality(ids) :
            i < j => (s[i] # s[j] /\ NotAfter(coll[s[j]], coll[s[i]]))}

\* list(find(query).sort("order", 1)): the matching ids, each once, ascending
\* by "order"; documents with equal keys come in any order
SortByOrder(coll, ids) ==
    {s \in [1..Cardinality(ids) -> ids] :
        \A i, j \in 1..Cardinality(ids) :
            i < j => (s[i] # s[j] /\ NotAfter(coll[s[i]], coll[s[j]]))}

\* ------------------------------------------------------------ payloads
\* CategoryCreate.dict(): order defaults to 0
CategoryCreates == {[name |-> "Grill", order |-> o] : o \in 0..1}

\* CategoryUpdate.dict() without its None fields
CategoryUpdates == {NoFields, [name |-> "Kebab"], [order |-> MaxOrder]}

\* The bodies of POST /api/menu-items: is_published is optional
MenuItemBodies(cats) == {[category_id |-> c] : c \in cats}
                            \cup {[category_id |-> c, is_published |-> FALSE] : c \in cats}

\* MenuItemCreate(...).dict(): is_published: bool = True
MenuItemCreate(body) == [title |-> "Adana", category_id |-> body.category_id,
                         is_published |-> Get(body, "is_published", TRUE)]

\* MenuItemUpdate.dict() without its None fields
MenuItemUpdates(cats) ==
    {NoFields}
        \cup {[category_id |-> c] : c \in cats}
        \cup {[is_published |-> b] : b \in BOOLEAN}
        \cup {[order |-> o] : o \in 1..MaxOrder}

\* SettingsUpdate.dict() without its None fields
SettingsUpdates ==
    {NoFields, [company_name |-> "Limon"], [restaurant_email |-> "chef@limon"]}
        \cup {[data_version |-> 0]}

\* reorder's body: a list of {"id", "order"}
Batches(ids) == UNION {[1..n -> [id : ids, order : 1..MaxOrder]] : n \in 0..MaxBatch}

\* --------------------------------------------------------------- Init
\* init_default_data's seed of an empty settings collection
SeedSettings == [company_name |-> "The Limon"]

\* init_default_data's default_categories (seven in the code, cut to
\* NumDefaultCategories)
default_categories == [i \in 1..NumDefaultCategories |-> [name |-> "Default", order |-> i]]

\* init_default_data on a database: each collection is seeded only when empty
init_default_data(d) ==
    [d EXCEPT
       !.admins = IF DOMAIN d.admins = {}
                  THEN Insert(d.admins, AdminId,
                              [username |-> "admin", password |-> hash_password("admin123"),
                               role |-> "admin"])
                  ELSE d.admins,
       !.settings = IF Len(d.settings) = 0 THEN <<SeedSettings>> ELSE d.settings,
       !.categories = IF DOMAIN d.categories = {} THEN default_categories ELSE d.categories]

\* A database no server has touched.
EmptyDb == [admins |-> NoFields, settings |-> <<>>, categories |-> NoFields,
            menu_items |-> NoFields]

\* A database an earlier run has left: the default categories, a menu item stored
\* before is_published existed, one stored with it, and a version counter.
LegacyDb ==
    [admins |-> Insert(NoFields, AdminId,
                       [username |-> "admin", password |-> hash_password("admin123"),
                        role |-> "admin"]),
     settings |-> <<[company_name |-> "The Limon", data_version |-> 2]>>,
     categories |-> default_categories,
     menu_items |-> Insert(Insert(NoFields, 1, [title |-> "Simit", category_id |-> 1]),
                           2, [title |-> "Menemen", category_id |-> 1,
                               is_published |-> TRUE])]

Init ==
    /\ \E d0 \in {EmptyDb, LegacyDb} :
         LET d == init_default_data(d0) IN
           /\ categories = d.categories
           /\ nextCat = Cardinality(DOMAIN d.categories)
           /\ menu_items = d.menu_items
           /\ nextItem = Cardinality(DOMAIN d.menu_items)
           /\ settings = d.settings
           /\ admins = d.admins
           /\ fresh = (Len(d0.settings) = 0)
    /\ orders = NoFields
    /\ nextOrder = 0
    /\ contact_messages = NoFields
    /\ nextMessage = 0
    /\ notifications = <<>>
    /\ now = 0
    /\ issued = {create_token(AdminId, 0 - TokenTTL - 1), create_token(AdminId, 0)}
    /\ pc = [p \in Procs |-> "idle"]
    /\ local = [p \in Procs |-> NoFields]
    /\ resp = [status |-> 0]
    /\ nreq = 0
    /\ presented = NoFields
    /\ v0 = ReadVersion(settings)
    /\ base = StoredVersion(settings)
    /\ muts = 0
    /\ bumpOps = 0
    /\ otherWriter = FALSE
    /\ epoch = 0
    /\ overlap = [p \in Procs |-> FALSE]

\* ---------------------------------------------------------- processes
Idle == \A p \in Procs : pc[p] = "idle"

\* The Authorization header of a request to a route without Depends(verify_token)
\* is not read.
NoCredential == NoFields

\* A process takes a new request, made with credential cred.
Accept(p, cred) ==
    /\ pc[p] = "idle"
    /\ nreq < MaxRequests
    /\ nreq' = nreq + 1
    /\ presented' = cred

\* A process makes its handler's next storage call.
Resume(p, label) ==
    /\ pc[p] = label
    /\ nreq' = nreq
    /\ presented' = presented

\* The handler returns (or raises HTTPException): the response is sent.
Reply(p, r) ==
    /\ pc' = [pc EXCEPT ![p] = "idle"]
    /\ local' = [local EXCEPT ![p] = NoFields]
    /\ resp' = r

\* The handler goes on to its next storage call with locals loc.
Goto(p, label, loc) ==
    /\ pc' = [pc EXCEPT ![p] = label]
    /\ local' = [local EXCEPT ![p] = loc]
    /\ resp' = resp

\* The history variables after a step of p: dm mutations answered 200, di
\* $inc calls made, ow whether data_version was $set; epoch counts the changes
\* of the catalog; overlap[q] holds while q is between the two storage calls
\* of delete_category and another process has stepped since the first.
Count(p, dm, di, ow) ==
    /\ muts' = muts + dm
    /\ bumpOps' = bumpOps + di
    /\ otherWriter' = (otherWriter \/ ow)
    /\ epoch' = IF catalog' # catalog THEN epoch + 1 ELSE epoch
    /\ overlap' = [q \in Procs |->
                      IF pc'[q] # "delete_category_delete" THEN FALSE
                      ELSE IF q # p THEN TRUE
                      ELSE overlap[p] /\ pc[p] = "delete_category_delete"]
    /\ UNCHANGED <<fresh, v0, base>>

\* The responses: the status code, the detail of an HTTPException, and the
\* part of a body that the properties below read.
Ok == [status |-> 200]
Err(status, detail) == [status |-> status, detail |-> detail]

\* Depends(verify_token) raised: 401, and the handler body never runs.
Unauthorized(p, cred) ==
    /\ verify_token(cred, now) # "ok"
    /\ Reply(p, Err(401, verify_token(cred, now)))
    /\ UNCHANGED <<db, now, issued>>
    /\ Count(p, 0, 0, FALSE)

\* The last step of every bumping handler:
\* db.settings.update_one({}, {"$inc": {"data_version": 1}}, upsert=True),
\* then the response (a find_one of the entity for the response body, where
\* the code has one, changes nothing).
BumpAndReply(p, label, r) ==
    /\ Resume(p, label)
    /\ settings' = Bump(settings)
    /\ Reply(p, r)
    /\ UNCHANGED <<categories, nextCat, menu_items, nextItem, admins, orders, nextOrder,
                   contact_messages, nextMessage, notifications, now, issued>>
    /\ Count(p, 1, 1, FALSE)

\* ----------------------------------------------------------- categories
get_categories(p) ==
    /\ Accept(p, NoCredential)
    /\ \E s \in SortByOrder(categories, DOMAIN categories) :
          Reply(p, [status |-> 200, ids |-> s])
    /\ UNCHANGED <<db, now, issued>>
    /\ Count(p, 0, 0, FALSE)

create_category(p, cred, data) ==
    /\ Accept(p, cred)
    /\ \/ Unauthorized(p, cred)
       \/ /\ verify_token(cred, now) = "ok"
          /\ nextCat < MaxCats
          /\ categories' = Insert(categories, nextCat + 1, data)
          /\ nextCat' = nextCat + 1
          /\ Reply(p, Ok)
          /\ UNCHANGED <<menu_items, nextItem, settings, admins, orders, nextOrder,
                         contact_messages, nextMessage, notifications, now, issued>>
          /\ Count(p, 1, 0, FALSE)

update_category(p, cred, category_id, data) ==
    /\ Accept(p, cred)
    /\ \/ Unauthorized(p, cred)
       \/ /\ verify_token(cred, now) = "ok"
          /\ NoData(data)
          /\ Reply(p, Err(400, "No data to update"))
          /\ UNCHANGED <<db, now, issued>>
          /\ Count(p, 0, 0, FALSE)
       \/ /\ verify_token(cred, now) = "ok"
          /\ ~NoData(data)
          /\ category_id \notin DOMAIN categories
          /\ Reply(p, Err(404, "Category not found"))
          /\ UNCHANGED <<db, now, issued>>
          /\ Count(p, 0, 0, FALSE)
       \/ /\ verify_token(cred, now) = "ok"
          /\ ~NoData(data)
          /\ category_id \in DOMAIN categories
          /\ categories' = [categories EXCEPT
                              ![category_id] = SetFields(categories[category_id], data)]
          /\ Goto(p, "update_category_bump", NoFields)
          /\ UNCHANGED <<nextCat, menu_items, nextItem, settings, admins, orders, nextOrder,
                         contact_messages, nextMessage, notifications, now, issued>>
          /\ Count(p, 0, 0, FALSE)

update_category_bump(p) == BumpAndReply(p, "update_category_bump", Ok)

\* delete_category's first call: db.menu_items.delete_many({"category_id": category_id})
delete_category(p, cred, category_id) ==
    /\ Accept(p, cred)
    /\ \/ Unauthorized(p, cred)
       \/ /\ verify_token(cred, now) = "ok"
          /\ menu_items' = Without(menu_items, ItemsOf(menu_items, category_id))
          /\ Goto(p, "delete_category_delete", [category_id |-> category_id])
          /\ UNCHANGED <<categories, nextCat, nextItem, settings, admins, orders, nextOrder,
                         contact_messages, nextMessage, notifications, now, issued>>
          /\ Count(p, 0, 0, FALSE)

\* delete_category's second call: db.categories.delete_one, 404 when it deleted nothing
delete_category_delete(p) ==
    /\ Resume(p, "delete_category_delete")
    /\ \/ /\ local[p].category_id \in DOMAIN categories
          /\ categories' = Without(categories, {local[p].category_id})
          /\ Reply(p, Ok)
          /\ UNCHANGED <<nextCat, menu_items, nextItem, settings, admins, orders, nextOrder,
                         contact_messages, nextMessage, notifications, now, issued>>
          /\ Count(p, 1, 0, FALSE)
       \/ /\ local[p].category_id \notin DOMAIN categories
          /\ Reply(p, Err(404, "Category not found"))
          /\ UNCHANGED <<db, now, issued>>
          /\ Count(p, 0, 0, FALSE)

\* reorder_categories: one update_one per entry of the body, then the bump
reorder_categories(p, cred, batch) ==
    /\ Accept(p, cred)
    /\ \/ Unauthorized(p, cred)
       \/ /\ verify_token(cred, now) = "ok"
          /\ Goto(p, "reorder_categories_update", [orders |-> batch])
          /\ UNCHANGED <<db, now, issued>>
          /\ Count(p, 0, 0, FALSE)

reorder_categories_update(p) ==
    /\ Resume(p, "reorder_categories_update")
    /\ local[p].orders # <<>>
    /\ LET item == Head(local[p].orders) IN
         categories' = IF item.id \in DOMAIN categories
                       THEN [categories EXCEPT
                               ![item.id] = SetFields(categories[item.id],
                                                      [order |-> item.order])]
                       ELSE categories
    /\ Goto(p, "reorder_categories_update", [orders |-> Tail(local[p].orders)])
    /\ UNCHANGED <<nextCat, menu_items, nextItem, settings, admins, orders, nextOrder,
                   contact_messages, nextMessage, notifications, now, issued>>
    /\ Count(p, 0, 0, FALSE)

reorder_categories_bump(p) ==
    /\ pc[p] = "reorder_categories_update"
    /\ local[p].orders = <<>>
    /\ BumpAndReply(p, "reorder_categories_update", Ok)

\* ----------------------------------------------------------- menu items
get_menu_items(p, category_id, published_only) ==
    /\ Accept(p, NoCredential)
    /\ \E s \in SortByOrder(menu_items, MatchItems(menu_items, category_id, published_only)) :
          Reply(p, [status |-> 200, ids |-> s])
    /\ UNCHANGED <<db, now, issued>>
    /\ Count(p, 0, 0, FALSE)

get_menu_item(p, item_id) ==
    /\ Accept(p, NoCredential)
    /\ Reply(p, IF item_id \in DOMAIN menu_items THEN Ok
                ELSE Err(404, "Item not found"))
    /\ UNCHANGED <<db, now, issued>>
    /\ Count(p, 0, 0, FALSE)

create_menu_item(p, cred, body) ==
    /\ Accept(p, cred)
    /\ \/ Unauthorized(p, cred)
       \/ /\ verify_token(cred, now) = "ok"
          /\ nextItem < MaxItems
          /\ menu_items' = Insert(menu_items, nextItem + 1, MenuItemCreate(body))
          /\ nextItem' = nextItem + 1
          /\ Goto(p, "create_menu_item_bump", NoFields)
          /\ UNCHANGED <<categories, nextCat, settings, admins, orders, nextOrder,
                         contact_messages, nextMessage, notifications, now, issued>>
          /\ Count(p, 0, 0, FALSE)

create_menu_item_bump(p) == BumpAndReply(p, "create_menu_item_bump", Ok)

update_menu_item(p, cred, item_id, data) ==
    /\ Accept(p, cred)
    /\ \/ Unauthorized(p, cred)
       \/ /\ verify_token(cred, now) = "ok"
          /\ NoData(data)
          /\ Reply(p, Err(400, "No data to update"))
          /\ UNCHANGED <<db, now, issued>>
          /\ Count(p, 0, 0, FALSE)
       \/ /\ verify_token(cred, now) = "ok"
          /\ ~NoData(data)
          /\ item_id \notin DOMAIN menu_items
          /\ Reply(p, Err(404, "Item not found"))
          /\ UNCHANGED <<db, now, issued>>
          /\ Count(p, 0, 0, FALSE)
       \/ /\ verify_token(cred, now) = "ok"
          /\ ~NoData(data)
          /\ item_id \in DOMAIN menu_items
          /\ menu_items' = [menu_items EXCEPT ![item_id] = SetFields(menu_items[item_id], data)]
          /\ Goto(p, "update_menu_item_bump", NoFields)
          /\ UNCHANGED <<categories, nextCat, nextItem, settings, admins, orders, nextOrder,
                         contact_messages, nextMessage, notifications, now, issued>>
          /\ Count(p, 0, 0, FALSE)

update_menu_item_bump(p) == BumpAndReply(p, "update_menu_item_bump", Ok)

delete_menu_item(p, cred, item_id) ==
    /\ Accept(p, cred)
    /\ \/ Unauthorized(p, cred)
       \/ /\ verify_token(cred, now) = "ok"
          /\ item_id \notin DOMAIN menu_items
          /\ Reply(p, Err(404, "Item not found"))
          /\ UNCHANGED <<db, now, issued>>
          /\ Count(p, 0, 0, FALSE)
       \/ /\ verify_token(cred, now) = "ok"
          /\ item_id \in DOMAIN menu_items
          /\ menu_items' = Without(menu_items, {item_id})
          /\ Goto(p, "delete_menu_item_bump", NoFields)
          /\ UNCHANGED <<categories, nextCat, nextItem, settings, admins, orders, nextOrder,
                         contact_messages, nextMessage, notifications, now, issued>>
          /\ Count(p, 0, 0, FALSE)

delete_menu_item_bump(p) == BumpAndReply(p, "delete_menu_item_bump", Ok)

\* NewStatus with a missing is_published read as False.
NewStatus_absentFalse(item) == ~Get(item, "is_published", FALSE)

\* new_status = not item.get("is_published", True)
NewStatus(item) == ~Get(item, "is_published", TRUE)

\* toggle_publish_menu_item's first call: find_one, 404 when there is no item
toggle_publish_menu_item(p, cred, item_id) ==
    /\ Accept(p, cred)
    /\ \/ Unauthorized(p, cred)
       \/ /\ verify_token(cred, now) = "ok"
          /\ item_id \notin DOMAIN menu_items
          /\ Reply(p, Err(404, "Item not found"))
          /\ UNCHANGED <<db, now, issued>>
          /\ Count(p, 0, 0, FALSE)
       \/ /\ verify_token(cred, now) = "ok"
          /\ item_id \in DOMAIN menu_items
          /\ Goto(p, "toggle_publish_update",
                  [item_id |-> item_id, item |-> menu_items[item_id],
                   new_status |-> NewStatus(menu_items[item_id])])
          /\ UNCHANGED <<db, now, issued>>
          /\ Count(p, 0, 0, FALSE)

\* its second call: update_one {"$set": {"is_published": new_status}}, which
\* matches nothing when the item has been deleted meanwhile
toggle_publish_update(p) ==
    /\ Resume(p, "toggle_publish_update")
    /\ menu_items' = IF local[p].item_id \in DOMAIN menu_items
                     THEN [menu_items EXCEPT
                             ![local[p].item_id] =
                                 SetFields(menu_items[local[p].item_id],
                                           [is_published |-> local[p].new_status])]
                     ELSE menu_items
    /\ Goto(p, "toggle_publish_bump", local[p])
    /\ UNCHANGED <<categories, nextCat, nextItem, settings, admins, orders, nextOrder,
                   contact_messages, nextMessage, notifications, now, issued>>
    /\ Count(p, 0, 0, FALSE)

toggle_publish_bump(p) ==
    /\ pc[p] = "toggle_publish_bump"
    /\ BumpAndReply(p, "toggle_publish_bump",
                    [status |-> 200, item_id |-> local[p].item_id, is_published |-> local[p].new_status])

reorder_menu_items(p, cred, batch) ==
    /\ Accept(p, cred)
    /\ \/ Unauthorized(p, cred)
       \/ /\ verify_token(cred, now) = "ok"
          /\ Goto(p, "reorder_menu_items_update", [orders |-> batch])
          /\ UNCHANGED <<db, now, issued>>
          /\ Count(p, 0, 0, FALSE)

reorder_menu_items_update(p) ==
    /\ Resume(p, "reorder_menu_items_update")
    /\ local[p].orders # <<>>
    /\ LET item == Head(local[p].orders) IN
         menu_items' = IF item.id \in DOMAIN menu_items
                       THEN [menu_items EXCEPT
                               ![item.id] = SetFields(menu_items[item.id],
                                                      [order |-> item.order])]
                       ELSE menu_items
    /\ Goto(p, "reorder_menu_items_update", [orders |-> Tail(local[p].orders)])
    /\ UNCHANGED <<categories, nextCat, nextItem, settings, admins, orders, nextOrder,
                   contact_messages, nextMessage, notifications, now, issued>>
    /\ Count(p, 0, 0, FALSE)

reorder_menu_items_bump(p) ==
    /\ pc[p] = "reorder_menu_items_update"
    /\ local[p].orders = <<>>
    /\ BumpAndReply(p, "reorder_menu_items_update", Ok)

\* ------------------------------------------------------------- settings
get_settings(p) ==
    /\ Accept(p, NoCredential)
    /\ Reply(p, [status |-> 200, settings |-> FindSettings(settings).doc])
    /\ UNCHANGED <<db, now, issued>>
    /\ Count(p, 0, 0, FALSE)

\* update_settings' first call: the upserting $set of the non-None fields
update_settings(p, cred, data) ==
    /\ Accept(p, cred)
    /\ \/ Unauthorized(p, cred)
       \/ /\ verify_token(cred, now) = "ok"
          /\ NoData(data)
          /\ Reply(p, Err(400, "No data to update"))
          /\ UNCHANGED <<db, now, issued>>
          /\ Count(p, 0, 0, FALSE)
       \/ /\ verify_token(cred, now) = "ok"
          /\ ~NoData(data)
          /\ settings' = SetSettings(settings, data)
          /\ Goto(p, "update_settings_bump", NoFields)
          /\ UNCHANGED <<categories, nextCat, menu_items, nextItem, admins, orders, nextOrder,
                         contact_messages, nextMessage, notifications, now, issued>>
          /\ Count(p, 0, 0, Has(data, "data_version"))

update_settings_bump(p) == BumpAndReply(p, "update_settings_bump", Ok)

\* --------------------------------------------------------- public reads
\* get_public_data reads settings, then categories, then menu items; the
\* response carries the three as read (the lists by content: their order is
\* that of get_categories and get_menu_items)
get_public_data(p) ==
    /\ Accept(p, NoCredential)
    /\ Goto(p, "get_public_data_categories",
            [settings |-> FindSettings(settings), at |-> epoch])
    /\ UNCHANGED <<db, now, issued>>
    /\ Count(p, 0, 0, FALSE)

get_public_data_categories(p) ==
    /\ Resume(p, "get_public_data_categories")
    /\ Goto(p, "get_public_data_items",
            [settings |-> local[p].settings, at |-> local[p].at, categories |-> categories])
    /\ UNCHANGED <<db, now, issued>>
    /\ Count(p, 0, 0, FALSE)

get_public_data_items(p) ==
    /\ Resume(p, "get_public_data_items")
    /\ Reply(p, [status |-> 200, dataVersion |-> SnapshotVersion(local[p].settings),
                 at |-> local[p].at, settings |-> local[p].settings.doc,
                 categories |-> local[p].categories, items |-> menu_items])
    /\ UNCHANGED <<db, now, issued>>
    /\ Count(p, 0, 0, FALSE)

get_data_version(p) ==
    /\ Accept(p, NoCredential)
    /\ Reply(p, [status |-> 200, dataVersion |-> ReadVersion(settings)])
    /\ UNCHANGED <<db, now, issued>>
    /\ Count(p, 0, 0, FALSE)

\* --------------------------------------------------------------- intake
\* send_email_notification: the outbox record
Notification(to) == [to |-> to, sent |-> FALSE]

\* restaurant_email = settings.get("restaurant_email") if settings else None
\* ("" stands for None: both are falsy in "if restaurant_email:")
RestaurantEmail(s) == Get(FindSettings(s).doc, "restaurant_email", "")

create_order(p) ==
    /\ Accept(p, NoCredential)
    /\ nextOrder < MaxOrders
    /\ Goto(p, "create_order_insert", [restaurant_email |-> RestaurantEmail(settings)])
    /\ UNCHANGED <<db, now, issued>>
    /\ Count(p, 0, 0, FALSE)

\* create_order_insert that also increments data_version.
create_order_insert_bump(p) ==
    /\ Resume(p, "create_order_insert")
    /\ orders' = Insert(orders, nextOrder + 1, [status |-> "pending"])
    /\ nextOrder' = nextOrder + 1
    /\ settings' = Bump(settings)
    /\ \/ /\ local[p].restaurant_email = ""
          /\ Reply(p, Ok)
       \/ /\ local[p].restaurant_email # ""
          /\ Goto(p, "create_order_notify", local[p])
    /\ UNCHANGED <<categories, nextCat, menu_items, nextItem, admins,
                   contact_messages, nextMessage, notifications, now, issued>>
    /\ Count(p, 0, 1, FALSE)

create_order_insert(p) ==
    /\ Resume(p, "create_order_insert")
    /\ orders' = Insert(orders, nextOrder + 1, [status |-> "pending"])
    /\ nextOrder' = nextOrder + 1
    /\ \/ /\ local[p].restaurant_email = ""
          /\ Reply(p, Ok)
       \/ /\ local[p].restaurant_email # ""
          /\ Goto(p, "create_order_notify", local[p])
    /\ UNCHANGED <<categories, nextCat, menu_items, nextItem, settings, admins,
                   contact_messages, nextMessage, notifications, now, issued>>
    /\ Count(p, 0, 0, FALSE)

create_order_notify(p) ==
    /\ Resume(p, "create_order_notify")
    /\ notifications' = Append(notifications, Notification(local[p].restaurant_email))
    /\ Reply(p, Ok)
    /\ UNCHANGED <<categories, nextCat, menu_items, nextItem, settings, admins, orders,
                   nextOrder, contact_messages, nextMessage, now, issued>>
    /\ Count(p, 0, 0, FALSE)

send_contact_message(p) ==
    /\ Accept(p, NoCredential)
    /\ nextMessage < MaxMessages
    /\ Goto(p, "send_contact_message_insert",
            [restaurant_email |-> RestaurantEmail(settings)])
    /\ UNCHANGED <<db, now, issued>>
    /\ Count(p, 0, 0, FALSE)

send_contact_message_insert(p) ==
    /\ Resume(p, "send_contact_message_insert")
    /\ contact_messages' = Insert(contact_messages, nextMessage + 1, [name |-> "Guest"])
    /\ nextMessage' = nextMessage + 1
    /\ \/ /\ local[p].restaurant_email = ""
          /\ Reply(p, Ok)
       \/ /\ local[p].restaurant_email # ""
          /\ Goto(p, "send_contact_message_notify", local[p])
    /\ UNCHANGED <<categories, nextCat, menu_items, nextItem, settings, admins, orders,
                   nextOrder, notifications, now, issued>>
    /\ Count(p, 0, 0, FALSE)

send_contact_message_notify(p) ==
    /\ Resume(p, "send_contact_message_notify")
    /\ notifications' = Append(notifications, Notification(local[p].restaurant_email))
    /\ Reply(p, Ok)
    /\ UNCHANGED <<categories, nextCat, menu_items, nextItem, settings, admins, orders,
                   nextOrder, contact_messages, nextMessage, now, issued>>
    /\ Count(p, 0, 0, FALSE)

\* ------------------------------------------- admin: orders and messages
get_orders(p, cred) ==
    /\ Accept(p, cred)
    /\ \/ Unauthorized(p, cred)
       \/ /\ verify_token(cred, now) = "ok"
          /\ Reply(p, [status |-> 200, ids |-> DOMAIN orders])
          /\ UNCHANGED <<db, now, issued>>
          /\ Count(p, 0, 0, FALSE)

update_order_status(p, cred, order_id, status) ==
    /\ Accept(p, cred)
    /\ \/ Unauthorized(p, cred)
       \/ /\ verify_token(cred, now) = "ok"
          /\ order_id \notin DOMAIN orders
          /\ Reply(p, Err(404, "Order not found"))
          /\ UNCHANGED <<db, now, issued>>
          /\ Count(p, 0, 0, FALSE)
       \/ /\ verify_token(cred, now) = "ok"
          /\ order_id \in DOMAIN orders
          /\ orders' = [orders EXCEPT ![order_id] = SetFields(orders[order_id],
                                                              [status |-> status])]
          /\ Reply(p, Ok)
          /\ UNCHANGED <<categories, nextCat, menu_items, nextItem, settings, admins,
                         nextOrder, contact_messages, nextMessage, notifications, now,
                         issued>>
          /\ Count(p, 0, 0, FALSE)

delete_order(p, cred, order_id) ==
    /\ Accept(p, cred)
    /\ \/ Unauthorized(p, cred)
       \/ /\ verify_token(cred, now) = "ok"
          /\ order_id \notin DOMAIN orders
          /\ Reply(p, Err(404, "Order not found"))
          /\ UNCHANGED <<db, now, issued>>
          /\ Count(p, 0, 0, FALSE)
       \/ /\ verify_token(cred, now) = "ok"
          /\ order_id \in DOMAIN orders
          /\ orders' = Without(orders, {order_id})
          /\ Reply(p, Ok)
          /\ UNCHANGED <<categories, nextCat, menu_items, nextItem, settings, admins,
                         nextOrder, contact_messages, nextMessage, notifications, now,
                         issued>>
          /\ Count(p, 0, 0, FALSE)

get_contact_messages(p, cred) ==
    /\ Accept(p, cred)
    /\ \/ Unauthorized(p, cred)
       \/ /\ verify_token(cred, now) = "ok"
          /\ Reply(p, [status |-> 200, ids |-> DOMAIN contact_messages])
          /\ UNCHANGED <<db, now, issued>>
          /\ Count(p, 0, 0, FALSE)

mark_message_read(p, cred, message_id) ==
    /\ Accept(p, cred)
    /\ \/ Unauthorized(p, cred)
       \/ /\ verify_token(cred, now) = "ok"
          /\ message_id \notin DOMAIN contact_messages
          /\ Reply(p, Err(404, "Message not found"))
          /\ UNCHANGED <<db, now, issued>>
          /\ Count(p, 0, 0, FALSE)
       \/ /\ verify_token(cred, now) = "ok"
          /\ message_id \in DOMAIN contact_messages
          /\ contact_messages' = [contact_messages EXCEPT
                                    ![message_id] = SetFields(contact_messages[message_id],
                                                              [is_read |-> TRUE])]
          /\ Reply(p, Ok)
          /\ UNCHANGED <<categories, nextCat, menu_items, nextItem, settings, admins, orders,
                         nextOrder, nextMessage, notifications, now, issued>>
          /\ Count(p, 0, 0, FALSE)

delete_message(p, cred, message_id) ==
    /\ Accept(p, cred)
    /\ \/ Unauthorized(p, cred)
       \/ /\ verify_token(cred, now) = "ok"
          /\ message_id \notin DOMAIN contact_messages
          /\ Reply(p, Err(404, "Message not found"))
          /\ UNCHANGED <<db, now, issued>>
          /\ Count(p, 0, 0, FALSE)
       \/ /\ verify_token(cred, now) = "ok"
          /\ message_id \in DOMAIN contact_messages
          /\ contact_messages' = Without(contact_messages, {message_id})
          /\ Reply(p, Ok)
          /\ UNCHANGED <<categories, nextCat, menu_items, nextItem, settings, admins, orders,
                         nextOrder, nextMessage, notifications, now, issued>>
          /\ Count(p, 0, 0, FALSE)

\* ----------------------------------------------------------- auth routes
\* db.admins.find_one({"username": ..., "password": hash_password(...)})
FindAdmin(username, password) ==
    {a \in DOMAIN admins : /\ admins[a].username = username
                           /\ admins[a].password = hash_password(password)}

login(p, username, password) ==
    /\ Accept(p, NoCredential)
    /\ \/ /\ FindAdmin(username, password) = {}
          /\ Reply(p, Err(401, "Invalid credentials"))
          /\ issued' = issued
       \/ \E a \in FindAdmin(username, password) :
            /\ issued' = issued \cup {create_token(a, now)}
            /\ Reply(p, [status |-> 200, token |-> create_token(a, now)])
    /\ UNCHANGED <<db, now>>
    /\ Count(p, 0, 0, FALSE)

get_me(p, cred) ==
    /\ Accept(p, cred)
    /\ \/ Unauthorized(p, cred)
       \/ /\ verify_token(cred, now) = "ok"
          /\ Reply(p, [status |-> 200, user |-> cred.user_id])
          /\ UNCHANGED <<db, now, issued>>
          /\ Count(p, 0, 0, FALSE)

\* change_password's first call: find_one by _id and the old password's hash
change_password(p, cred, old_password, new_password) ==
    /\ Accept(p, cred)
    /\ \/ Unauthorized(p, cred)
       \/ /\ verify_token(cred, now) = "ok"
          /\ ~(/\ cred.user_id \in DOMAIN admins
               /\ admins[cred.user_id].password = hash_password(old_password))
          /\ Reply(p, Err(400, "Invalid old password"))
          /\ UNCHANGED <<db, now, issued>>
          /\ Count(p, 0, 0, FALSE)
       \/ /\ verify_token(cred, now) = "ok"
          /\ cred.user_id \in DOMAIN admins
          /\ admins[cred.user_id].password = hash_password(old_password)
          /\ Goto(p, "change_password_update",
                  [user_id |-> cred.user_id, new_password |-> new_password])
          /\ UNCHANGED <<db, now, issued>>
          /\ Count(p, 0, 0, FALSE)

\* its second call: update_one {"$set": {"password": hash_password(new_password)}}
change_password_update(p) ==
    /\ Resume(p, "change_password_update")
    /\ admins' = IF local[p].user_id \in DOMAIN admins
                 THEN [admins EXCEPT
                         ![local[p].user_id] =
                             SetFields(admins[local[p].user_id],
                                       [password |-> hash_password(local[p].new_password)])]
                 ELSE admins
    /\ Reply(p, Ok)
    /\ UNCHANGED <<categories, nextCat, menu_items, nextItem, settings, orders, nextOrder,
                   contact_messages, nextMessage, notifications, now, issued>>
    /\ Count(p, 0, 0, FALSE)

\* ----------------------------------------------------------------- Next
\* The ids a caller can name: those handed out so far, and one naming nothing.
CatIds == BogusId..nextCat
ItemIds == BogusId..nextItem
OrderIds == BogusId..nextOrder
MessageIds == BogusId..nextMessage

Next ==
    \E p \in Procs :
        \/ get_categories(p)
        \/ \E cred \in Creds, data \in CategoryCreates : create_category(p, cred, data)
        \/ \E cred \in Creds, id \in CatIds, data \in CategoryUpdates :
               update_category(p, cred, id, data)
        \/ update_category_bump(p)
        \/ \E cred \in Creds, id \in CatIds : delete_category(p, cred, id)
        \/ delete_category_delete(p)
        \/ \E cred \in Creds, batch \in Batches(CatIds) : reorder_categories(p, cred, batch)
        \/ reorder_categories_update(p)
        \/ reorder_categories_bump(p)
        \/ \E c \in CatIds \cup {NoCategory}, b \in BOOLEAN : get_menu_items(p, c, b)
        \/ \E id \in ItemIds : get_menu_item(p, id)
        \/ \E cred \in Creds, body \in MenuItemBodies(CatIds) :
               create_menu_item(p, cred, body)
        \/ create_menu_item_bump(p)
        \/ \E cred \in Creds, id \in ItemIds, data \in MenuItemUpdates(CatIds) :
               update_menu_item(p, cred, id, data)
        \/ update_menu_item_bump(p)
        \/ \E cred \in Creds, id \in ItemIds : delete_menu_item(p, cred, id)
        \/ delete_menu_item_bump(p)
        \/ \E cred \in Creds, id \in ItemIds : toggle_publish_menu_item(p, cred, id)
        \/ toggle_publish_update(p)
        \/ toggle_publish_bump(p)
        \/ \E cred \in Creds, batch \in Batches(ItemIds) : reorder_menu_items(p, cred, batch)
        \/ reorder_menu_items_update(p)
        \/ reorder_menu_items_bump(p)
        \/ get_settings(p)
        \/ \E cred \in Creds, data \in SettingsUpdates : update_settings(p, cred, data)
        \/ update_settings_bump(p)
        \/ get_public_data(p)
        \/ get_public_data_categories(p)
        \/ get_public_data_items(p)
        \/ get_data_version(p)
        \/ create_order(p)
        \/ create_order_insert(p)
        \/ create_order_notify(p)
        \/ send_contact_message(p)
        \/ send_contact_message_insert(p)
        \/ send_contact_message_notify(p)
        \/ \E cred \in Creds : get_orders(p, cred)
        \/ \E cred \in Creds, id \in OrderIds : update_order_status(p, cred, id, "served")
        \/ \E cred \in Creds, id \in OrderIds : delete_order(p, cred, id)
        \/ \E cred \in Creds : get_contact_messages(p, cred)
        \/ \E cred \in Creds, id \in MessageIds : mark_message_read(p, cred, id)
        \/ \E cred \in Creds, id \in MessageIds : delete_message(p, cred, id)
        \/ \E pw \in Passwords : login(p, "admin", pw)
        \/ \E cred \in Creds : get_me(p, cred)
        \/ \E cred \in Creds, old \in Passwords, new \in Passwords :
               change_password(p, cred, old, new)
        \/ change_password_update(p)

Spec == Init /\ [][Next]_vars

\* ------------------------------------------------------------------ boot
\* The handlers are coroutines without an await, so one server process runs
\* each of them to its end: storage calls of different requests interleave
\* only when several server processes share the database, and each of those
\* runs init_default_data when it imports the module, before it serves.
\* SpecBoot starts from the database as the processes find it and makes every
\* storage call of init_default_data a step.
InitBoot ==
    /\ \E d0 \in {EmptyDb, LegacyDb} :
           /\ categories = d0.categories
           /\ nextCat = Cardinality(DOMAIN d0.categories)
           /\ menu_items = d0.menu_items
           /\ nextItem = Cardinality(DOMAIN d0.menu_items)
           /\ settings = d0.settings
           /\ admins = d0.admins
           /\ fresh = (Len(d0.settings) = 0)
           /\ issued = IF DOMAIN d0.admins = {} THEN {} ELSE {create_token(AdminId, 0)}
    /\ orders = NoFields
    /\ nextOrder = 0
    /\ contact_messages = NoFields
    /\ nextMessage = 0
    /\ notifications = <<>>
    /\ now = 0
    /\ pc = [p \in Procs |-> "boot_admins"]
    /\ local = [p \in Procs |-> NoFields]
    /\ resp = [status |-> 0]
    /\ nreq = 0
    /\ presented = NoFields
    /\ v0 = ReadVersion(settings)
    /\ base = StoredVersion(settings)
    /\ muts = 0
    /\ bumpOps = 0
    /\ otherWriter = FALSE
    /\ epoch = 0
    /\ overlap = [p \in Procs |-> FALSE]

\* if db.admins.count_documents({}) == 0:
boot_admins(p) ==
    /\ Resume(p, "boot_admins")
    /\ Goto(p, IF DOMAIN admins = {} THEN "boot_admins_insert" ELSE "boot_settings", NoFields)
    /\ UNCHANGED <<db, now, issued>>
    /\ Count(p, 0, 0, FALSE)

\* db.admins.insert_one({...})
boot_admins_insert(p) ==
    /\ Resume(p, "boot_admins_insert")
    /\ admins' = Insert(admins, Cardinality(DOMAIN admins) + 1,
                        [username |-> "admin", password |-> hash_password("admin123"),
                         role |-> "admin"])
    /\ Goto(p, "boot_settings", NoFields)
    /\ UNCHANGED <<categories, nextCat, menu_items, nextItem, settings, orders, nextOrder,
                   contact_messages, nextMessage, notifications, now, issued>>
    /\ Count(p, 0, 0, FALSE)

\* if db.settings.count_documents({}) == 0:
boot_settings(p) ==
    /\ Resume(p, "boot_settings")
    /\ Goto(p, IF Len(settings) = 0 THEN "boot_settings_insert" ELSE "boot_categories",
            NoFields)
    /\ UNCHANGED <<db, now, issued>>
    /\ Count(p, 0, 0, FALSE)

\* db.settings.insert_one({...})
boot_settings_insert(p) ==
    /\ Resume(p, "boot_settings_insert")
    /\ settings' = Append(settings, SeedSettings)
    /\ Goto(p, "boot_categories", NoFields)
    /\ UNCHANGED <<categories, nextCat, menu_items, nextItem, admins, orders, nextOrder,
                   contact_messages, nextMessage, notifications, now, issued>>
    /\ Count(p, 0, 0, FALSE)

\* if db.categories.count_documents({}) == 0:
boot_categories(p) ==
    /\ Resume(p, "boot_categories")
    /\ Goto(p, IF DOMAIN categories = {} THEN "boot_categories_insert" ELSE "idle", NoFields)
    /\ UNCHANGED <<db, now, issued>>
    /\ Count(p, 0, 0, FALSE)

\* db.categories.insert_many(default_categories); the process then serves
boot_categories_insert(p) ==
    /\ Resume(p, "boot_categories_insert")
    /\ categories' = [c \in DOMAIN categories \cup (nextCat + 1 .. nextCat + NumDefaultCategories) |->
                         IF c \in DOMAIN categories THEN categories[c]
                         ELSE default_categories[c - nextCat]]
    /\ nextCat' = nextCat + NumDefaultCategories
    /\ Goto(p, "idle", NoFields)
    /\ UNCHANGED <<menu_items, nextItem, settings, admins, orders, nextOrder,
                   contact_messages, nextMessage, notifications, now, issued>>
    /\ Count(p, 0, 0, FALSE)

\* The boot of every process, and the routes that read or write the settings
\* collection and its counter.
NextBoot ==
    \E p \in Procs :
        \/ boot_admins(p)
        \/ boot_admins_insert(p)
        \/ boot_settings(p)
        \/ boot_settings_insert(p)
        \/ boot_categories(p)
        \/ boot_categories_insert(p)
        \/ \E pw \in Passwords : login(p, "admin", pw)
        \/ get_settings(p)
        \/ get_data_version(p)
        \/ \E cred \in Creds, data \in SettingsUpdates : update_settings(p, cred, data)
        \/ update_settings_bump(p)
        \/ \E cred \in Creds, id \in ItemIds : delete_menu_item(p, cred, id)
        \/ delete_menu_item_bump(p)

SpecBoot == InitBoot /\ [][NextBoot]_vars

\* ----------------------------------------------------------------- clock
\* A day passes: datetime.utcnow() in create_token and the clock jwt.decode
\* compares exp with.
Tick ==
    /\ now < MaxNow
    /\ now' = now + 1
    /\ UNCHANGED <<db, issued, pc, local, resp, nreq, hist>>

\* The routes that issue, verify and outlive a credential, with the clock.
NextClock ==
    \/ Tick
    \/ \E p \in Procs :
          \/ \E pw \in Passwords : login(p, "admin", pw)
          \/ \E cred \in Creds : get_me(p, cred)
          \/ \E cred \in Creds, old \in Passwords, new \in Passwords :
                 change_password(p, cred, old, new)
          \/ change_password_update(p)
          \/ \E cred \in Creds, data \in CategoryCreates : create_category(p, cred, data)

SpecClock == Init /\ [][NextClock]_vars

\* ------------------------------------------------------- data version
\* C1: every successful mutation of categories, menu items or settings makes
\* the data_version increment exactly once: when no request is being served,
\* as many increments have been made as mutations have been answered 200 (so
\* a successful create or delete of a category raises the version by 1).
C1_EveryMutationBumpsOnce == Idle => bumpOps = muts

\* C2: after N successful mutating admin calls, interleaved in any way, the
\* version a reader gets is the initial one plus N.
C2_FinalVersionIsInitialPlusN == Idle => ReadVersion(settings) = v0 + muts

\* C3: the version a reader gets never decreases, and only the increment
\* changes the stored counter.
C3_VersionMonotonic ==
    [][/\ ReadVersion(settings') >= ReadVersion(settings)
       /\ (StoredVersion(settings') # StoredVersion(settings) => bumpOps' = bumpOps + 1)]_vars

\* C4: on a freshly seeded system a reader gets version 1, and after the
\* first bumping mutation it gets 2.
C4_FirstBumpIsVisible ==
    (fresh /\ Idle /\ ~otherWriter) =>
        /\ (bumpOps = 0 => ReadVersion(settings) = 1)
        /\ (bumpOps = 1 => ReadVersion(settings) = 2)

\* C5: no increment is lost: as long as nothing else has written the field,
\* the stored data_version is its value at the start (0 when the field did
\* not exist) plus the number of increments made, whatever the interleaving
\* of the requests that made them.
C5_NoLostBumps == ~otherWriter => StoredVersion(settings) = base + bumpOps

\* Two bumping requests are between their entity write and their increment
\* while an increment of a third has already landed.
C5_Witness ==
    /\ ~otherWriter
    /\ HasVersionField(settings)
    /\ bumpOps >= 1
    /\ \E p, q \in Procs : /\ p # q
                           /\ pc[p] = "update_menu_item_bump"
                           /\ pc[q] = "reorder_menu_items_update"

\* C6: the dataVersion of a snapshot equals the version a reader gets as long
\* as nothing has changed the catalog since the snapshot read the settings
\* document: this holds for every snapshot being assembled, with or without a
\* data_version field in the document.
C6_SnapshotVersionIsReadVersion ==
    \A p \in Procs :
        (/\ pc[p] \in {"get_public_data_categories", "get_public_data_items"}
         /\ local[p].at = epoch)
            => SnapshotVersion(local[p].settings) = ReadVersion(settings)

\* A snapshot is being assembled after a mutation, nothing has changed since
\* it read the settings, and the document has no data_version field.
C6_Witness ==
    \E p \in Procs : /\ pc[p] = "get_public_data_items"
                     /\ local[p].at = epoch
                     /\ epoch > 0
                     /\ ~HasVersionField(settings)

\* ------------------------------------------------------------ auth gate
\* A correctly signed, unexpired credential.
ValidCredential(cred) == cred.signed /\ cred.exp >= now

\* Process p makes a step of a route that does not depend on verify_token.
Unauthenticated(p) ==
    \/ get_categories(p)
    \/ \E c \in CatIds \cup {NoCategory}, b \in BOOLEAN : get_menu_items(p, c, b)
    \/ \E id \in ItemIds : get_menu_item(p, id)
    \/ get_settings(p)
    \/ get_public_data(p) \/ get_public_data_categories(p) \/ get_public_data_items(p)
    \/ get_data_version(p)
    \/ create_order(p) \/ create_order_insert(p) \/ create_order_notify(p)
    \/ send_contact_message(p) \/ send_contact_message_insert(p)
    \/ send_contact_message_notify(p)
    \/ \E pw \in Passwords : login(p, "admin", pw)

\* Every document of coll is in coll2 as it was.
Kept(coll, coll2) == \A i \in DOMAIN coll : i \in DOMAIN coll2 /\ coll2[i] = coll[i]

C9_NoOrphanedMenuItem ==
    (\A p \in Procs : pc[p] # "delete_category_delete") =>
        \A i \in DOMAIN menu_items : menu_items[i].category_id \in DOMAIN categories

\* ------------------------------------------------------------ publishing
\* The items of GET /api/menu-items?published_only=true
Listed(items) == MatchItems(items, NoCategory, TRUE)

\* C10: a menu item created without is_published, and one that has no
\* is_published field, are in the published-only listing; a toggle whose item
\* no other request has changed between its find and its update takes the
\* item out of the listing if it was in and puts it in if it was out (so two
\* in a row restore it).
C10_PublishToggle ==
    [][/\ \A i \in DOMAIN menu_items :
             ~Has(menu_items[i], "is_published") => i \in Listed(menu_items)
       /\ \A p \in Procs :
             /\ (nextItem' = nextItem + 1) =>
                   \A cred \in Creds, body \in MenuItemBodies(CatIds) :
                      (~Has(body, "is_published") /\ create_menu_item(p, cred, body))
                         => (nextItem + 1) \in Listed(menu_items')
             /\ (/\ toggle_publish_update(p)
                 /\ local[p].item_id \in DOMAIN menu_items
                 /\ menu_items[local[p].item_id] = local[p].item)
                    => ((local[p].item_id \in Listed(menu_items'))
                           # (local[p].item_id \in Listed(menu_items)))]_vars

\* The item stored without is_published has been toggled out of the listing
\* and back in.
C10_Witness ==
    /\ ~fresh
    /\ resp = [status |-> 200, item_id |-> 1, is_published |-> TRUE]
    /\ bumpOps = 2
    /\ muts = 2
    /\ 1 \in Listed(menu_items)

\* ---------------------------------------------------------- update errors
\* C11: for categories and menu items, an update whose body has no non-null
\* field is answered 400 "No data to update" whether or not the id names an
\* entity, and an update with at least one field of an id that names no
\* entity is answered 404; neither stores anything.
C11_UpdateErrors ==
    [][(nreq' = nreq + 1) =>
          \A p \in Procs, cred \in Creds :
             ValidCredential(cred) =>
                /\ \A id \in CatIds, data \in CategoryUpdates :
                      update_category(p, cred, id, data) =>
                         /\ (data = NoFields =>
                                (resp' = Err(400, "No data to update") /\ UNCHANGED stored))
                         /\ ((data # NoFields /\ id \notin DOMAIN categories) =>
                                (resp' = Err(404, "Category not found") /\ UNCHANGED stored))
                /\ \A id \in ItemIds, data \in MenuItemUpdates(CatIds) :
                      update_menu_item(p, cred, id, data) =>
                         /\ (data = NoFields =>
                                (resp' = Err(400, "No data to update") /\ UNCHANGED stored))
                         /\ ((data # NoFields /\ id \notin DOMAIN menu_items) =>
                                (resp' = Err(404, "Item not found") /\ UNCHANGED stored))]_vars

\* An update has just been refused for want of fields while categories and
\* menu items exist to be updated.
C11_Witness ==
    /\ resp = Err(400, "No data to update")
    /\ ValidCredential(presented)
    /\ DOMAIN menu_items # {}
    /\ DOMAIN categories # {}
    /\ nreq = 1

\* --------------------------------------------------------------- reorder
\* The update of one entry of a reorder batch on collection coll: the entity
\* the entry names, when there is one, gets the requested order and keeps its
\* other fields; every other entity is as it was.
OrderSet(coll, coll2, item) ==
    /\ DOMAIN coll2 = DOMAIN coll
    /\ \A e \in DOMAIN coll :
          IF e = item.id
          THEN /\ DOMAIN coll2[e] = DOMAIN coll[e] \cup {"order"}
               /\ coll2[e].order = item.order
               /\ \A f \in DOMAIN coll[e] \ {"order"} : coll2[e][f] = coll[e][f]
          ELSE coll2[e] = coll[e]

\* Listing s holds each id of ids once, ascending by the order stored in coll.
Ascending(s, coll, ids) ==
    /\ Len(s) = Cardinality(ids)
    /\ {s[i] : i \in 1..Len(s)} = ids
    /\ \A i, j \in 1..Len(s) :
          (i < j /\ Has(coll[s[i]], "order")) =>
              (Has(coll[s[j]], "order") /\ coll[s[i]].order <= coll[s[j]].order)

C13_ReorderBumpsOnce ==
    [][\A p \in Procs :
          /\ (reorder_categories_update(p) \/ reorder_menu_items_update(p)) =>
                (settings' = settings /\ resp' = resp /\ pc'[p] = pc[p])
          /\ (reorder_categories_bump(p) \/ reorder_menu_items_bump(p)) =>
                /\ resp' = Ok
                /\ bumpOps' = bumpOps + 1
                /\ ReadVersion(settings') = ReadVersion(settings) + 1]_vars

\* ---------------------------------------------------------------- intake
\* Process p makes a step of an intake route or of an admin route over orders
\* or contact messages.
IntakeOrManagement(p) ==
    \/ create_order(p) \/ create_order_insert(p) \/ create_order_notify(p)
    \/ send_contact_message(p) \/ send_contact_message_insert(p)
    \/ send_contact_message_notify(p)
    \/ \E cred \in Creds : get_orders(p, cred) \/ get_contact_messages(p, cred)
    \/ \E cred \in Creds, id \in OrderIds :
          update_order_status(p, cred, id, "served") \/ delete_order(p, cred, id)
    \/ \E cred \in Creds, id \in MessageIds :
          mark_message_read(p, cred, id) \/ delete_message(p, cred, id)

\* C14: no step of create_order, send_contact_message or of the admin routes
\* over orders and contact messages changes a category, a menu item, the
\* settings document or the version a reader gets, with or without a
\* restaurant_email in the settings.
C14_IntakeLeavesCatalog ==
    [][\A p \in Procs :
          IntakeOrManagement(p) =>
              /\ UNCHANGED catalog
              /\ ReadVersion(settings') = ReadVersion(settings)]_vars

\* With a restaurant_email configured (one settings update, one increment) an
\* order has been taken and its notification recorded.
C14_Witness ==
    /\ Idle
    /\ resp = Ok
    /\ RestaurantEmail(settings) # ""
    /\ DOMAIN orders # {}
    /\ Len(notifications) = 1
    /\ bumpOps = 1

\* -------------------------------------------------------------- singleton
\* C15: the settings collection never holds more than one document, however
\* the boots of the server processes, the settings updates and the
\* increments interleave.
C15_SingleSettingsDocument == Len(settings) <= 1

\* ------------------------------------------------------------ credentials
\* C16: changing the password revokes nothing: a request that comes with a
\* credential the server has signed and that has not expired is never
\* answered 401, whatever the stored password has become since; the password
\* change leaves the signed credentials as they are and stores the new hash,
\* and a login with a password whose hash is not the stored one (the old
\* password, once changed) is refused and signs nothing.
C16_NoRevocation ==
    [][/\ (nreq' = nreq + 1 /\ presented' \in issued /\ presented'.exp >= now) =>
             (pc' # pc \/ resp'.status # 401)
       /\ \A p \in Procs :
             /\ change_password_update(p) =>
                   /\ issued' = issued
                   /\ admins'[local[p].user_id].password = <<"sha256", local[p].new_password>>
             /\ \A pw \in Passwords :
                   (login(p, "admin", pw) /\ admins[AdminId].password # <<"sha256", pw>>) =>
                       (resp' = Err(401, "Invalid credentials") /\ issued' = issued)]_vars

\* The password has been changed, and the credential signed on day 0 has
\* just been accepted by get_me on the last day of its life (get_me answers
\* in the step that accepts it, so with no request in service it came last).
C16_Witness ==
    /\ Idle
    /\ admins[AdminId].password = hash_password("limon456")
    /\ presented = create_token(AdminId, 0)
    /\ resp = [status |-> 200, user |-> AdminId]
    /\ now = TokenTTL

\* C17: a login with the stored password signs a credential that expires
\* TokenTTL days later, and one with another password is refused and signs
\* nothing; a signed credential is accepted on every day up to its exp and
\* refused with "Token expired" on every later day.
C17_CredentialLifetime ==
    [][\A p \in Procs :
          /\ \A pw \in Passwords :
                login(p, "admin", pw) =>
                    IF admins[AdminId].password = <<"sha256", pw>>
                    THEN /\ resp'.status = 200
                         /\ resp'.token.signed
                         /\ resp'.token.exp = now + TokenTTL
                         /\ issued' = issued \cup {resp'.token}
                    ELSE /\ resp' = Err(401, "Invalid credentials")
                         /\ issued' = issued
          /\ \A cred \in Creds :
                (get_me(p, cred) /\ cred.signed) =>
                    IF now <= cred.exp THEN resp'.status = 200
                    ELSE resp' = Err(401, "Token expired")]_vars

\* The credential a login signed on day 1 has been refused as expired on the
\* first day after its exp.
C17_Witness ==
    /\ presented = create_token(AdminId, 1)
    /\ resp = Err(401, "Token expired")
    /\ now = 1 + TokenTTL + 1

\* ----------------------------------------------------------- public reads
\* Process p makes a step of a public read route.
PublicRead(p) ==
    \/ get_categories(p)
    \/ \E c \in CatIds \cup {NoCategory}, b \in BOOLEAN : get_menu_items(p, c, b)
    \/ \E id \in ItemIds : get_menu_item(p, id)
    \/ get_settings(p)
    \/ get_public_data(p) \/ get_public_data_categories(p) \/ get_public_data_items(p)
    \/ get_data_version(p)

\* C18: no step of a public read changes a stored collection or the version
\* a reader gets; the version route answers 1 when the settings document has
\* no data_version field, and the version read from a settings collection
\* without a document is 1.
C18_PublicReadsAreReadOnly ==
    [][/\ ReadVersion(<<>>) = 1
       /\ \A p \in Procs :
             /\ PublicRead(p) =>
                   /\ UNCHANGED stored
                   /\ ReadVersion(settings') = ReadVersion(settings)
             /\ (get_data_version(p) /\ ~HasVersionField(settings)) =>
                   resp'.dataVersion = 1]_vars

\* After a mutation of a freshly seeded system the version route has
\* answered 1 from a settings document without the field.
C18_Witness ==
    /\ Idle
    /\ resp = [status |-> 200, dataVersion |-> 1]
    /\ ~HasVersionField(settings)
    /\ muts >= 1

\* ------------------------------------------------------------- staleness
\* The response of get_public_data.
IsSnapshot(r) == Has(r, "items")

\* C19: when the settings document a snapshot read had the data_version
\* field, no request has $set that field and only bumping mutations have
\* run: once no request is in service, if the categories or menu items
\* stored differ from those the snapshot returned (a write it does not
\* reflect), a reader gets a version greater than the snapshot's dataVersion;
\* and so it does after the increment of any mutation that completes after
\* the snapshot was returned.
C19_StaleSnapshotIsDetected ==
    [][/\ (/\ Idle'
           /\ IsSnapshot(resp')
           /\ Has(resp'.settings, "data_version")
           /\ ~otherWriter'
           /\ muts' = bumpOps'
           /\ (categories' # resp'.categories \/ menu_items' # resp'.items))
              => ReadVersion(settings') > resp'.dataVersion
       /\ (/\ bumpOps' = bumpOps + 1
           /\ IsSnapshot(resp)
           /\ Has(resp.settings, "data_version")
           /\ ~otherWriter')
              => ReadVersion(settings') > resp.dataVersion]_vars

\* A snapshot has been returned that misses a category write made by a
\* bumping mutation between its reads, and the version is ahead of its
\* dataVersion by that mutation's increment.
C19_Witness ==
    /\ Idle
    /\ IsSnapshot(resp)
    /\ Has(resp.settings, "data_version")
    /\ ~otherWriter
    /\ muts = bumpOps
    /\ categories # resp.categories
    /\ ReadVersion(settings) = resp.dataVersion + 1

\* ---------------------------------------------------------------- errors
\* C20: an admin request answered with an error (400, 401, 404) has changed
\* no category, no menu item and nothing of the settings; in particular the
\* delete of a category id that names no category deletes no menu item.
C20_ErrorsLeaveNoTrace ==
    [][/\ (/\ nreq' = nreq + 1
           /\ pc' = pc
           /\ presented' # NoCredential
           /\ resp'.status \in {400, 401, 404})
              => UNCHANGED catalog
       /\ \A p \in Procs, cred \in Creds, id \in CatIds :
             (delete_category(p, cred, id) /\ id \notin DOMAIN categories) =>
                 menu_items' = menu_items]_vars

\* ---------------------------------------------------------------- toggles
\* The is_published value a reader of the document gets, line 366's default.
IsPublished(item) == Get(item, "is_published", TRUE)

\* The document toggle call q found, as q's update leaves it.
AfterToggle(q) == SetFields(local[q].item, [is_published |-> local[q].new_status])

\* C21: of two toggle calls in flight on the same menu item, with no other
\* write to it, the update made second (the other call has made its own and
\* has only its increment left; this call found the item either before or
\* after that update) leaves is_published as the first call found it, that
\* is as it was before both; and each call's increment raises the version a
\* reader gets by one, two in all, where the settings hold the counter.
C21_ConcurrentTogglesCancel ==
    [][\A p \in Procs :
          /\ \A q \in Procs \ {p} :
                (/\ pc[p] = "toggle_publish_update"
                 /\ pc[q] = "toggle_publish_bump"
                 /\ local[p].item_id = local[q].item_id
                 /\ local[p].item_id \in DOMAIN menu_items
                 /\ menu_items[local[p].item_id] = AfterToggle(q)
                 /\ local[p].item \in {local[q].item, AfterToggle(q)}
                 /\ toggle_publish_update(p))
                    => IsPublished(menu_items'[local[p].item_id])
                          = IsPublished(local[q].item)
          /\ (/\ pc[p] = "toggle_publish_bump"
              /\ HasVersionField(settings)
              /\ toggle_publish_bump(p)) =>
                ReadVersion(settings') = ReadVersion(settings) + 1]_vars

=============================================================================
